---- MODULE Spec2Model ----
(***************************************************************************)
(* Proof-of-stake kernel of the Oblivion client: src/src/kernel.cpp        *)
(* (ComputeStakeModifier, CheckStakeKernelHash, CheckProofOfStake,         *)
(* CheckCoinStakeTimestamp, CheckKernel) and the chain-parameter selector  *)
(* of src/src/chainparams.cpp (CreateChainParams, SelectParams, Params).   *)
(*                                                                         *)
(* 256-bit values are modelled as UintBits-bit naturals, the block index   *)
(* as a sequence of entries (position = height + 1), a CBlockIndex* as a   *)
(* position in it (NullIndex for a null pointer).                          *)
(***************************************************************************)
EXTENDS Integers, Sequences, FiniteSets, TLC

VARIABLES
    globalChainParams,  \* chainparams.cpp:285, the selected network or NoParams
    fTxIndex,           \* the node's -txindex flag read by CheckProofOfStake
    vBlockIndex,        \* the active chain's block index entries, genesis first
    call                \* the last call made into the core, with its arguments and results

vars == <<globalChainParams, fTxIndex, vBlockIndex, call>>

(***************************************************************************)
(* Bounds of the model.                                                    *)
(***************************************************************************)
\* width of the model's "256-bit" words (uint256, hashes, stake modifiers)
UintBits == 8
\* the chain holds at most MaxBlocks entries
MaxBlocks == 2
\* transaction and block times range over 0..MaxTime
MaxTime == 1
\* kernel values handed to ComputeStakeModifier range over 0..MaxKernel
MaxKernel == 1

Uint256Mod == 2 ^ UintBits

NoParams == "null"
NullIndex == 0

Abs(x) == IF x < 0 THEN -x ELSE x

(***************************************************************************)
(* External collaborators (hash.h, bignum.h, uint256.h, validation.cpp).   *)
(***************************************************************************)
\* Hash(ss.begin(), ss.end()) over a CDataStream holding the fields ss, in order:
\* a fixed-width digest that depends on every field and on their order.
RECURSIVE HashFrom(_, _)
HashFrom(h, ss) ==
    IF ss = <<>> THEN h
    ELSE HashFrom((h * 31 + Head(ss)) % Uint256Mod, Tail(ss))

Hash(ss) == HashFrom(0, ss)

\* CBigNum::SetCompact: size byte, sign bit 0x00800000, 23-bit mantissa
SetCompact(nCompact) ==
    LET nSize == nCompact \div (2 ^ 24)
        fNegative == (nCompact \div (2 ^ 23)) % 2 = 1
        nWord == nCompact % (2 ^ 23)
        mag == IF nSize <= 3 THEN nWord \div (256 ^ (3 - nSize))
               ELSE nWord * (256 ^ (nSize - 3))
    IN IF fNegative THEN -mag ELSE mag

\* CBigNum::getuint256: the low 256 bits of the magnitude
getuint256(bn) == Abs(bn) % Uint256Mod

\* CBlockHeader::GetHash of the header of the entry at position i; a
\* default-constructed (null) header hashes to a value no block has
NullHeaderHash == 0
GetBlockHash(i) == i

(***************************************************************************)
(* Data: transactions, outpoints, headers, block index entries.            *)
(***************************************************************************)
\* a staked output's nValue (int64_t): positive, zero and negative amounts
\* every transaction of the model carries two outputs
TxBodies ==
    { [nTime |-> 0,       vout |-> <<0, 1>>],
      [nTime |-> MaxTime, vout |-> <<-1, 2>>] }

\* the transaction confirmed by the entry at position i; its id is the height
TxOf(i) ==
    [hash |-> i - 1, nTime |-> vBlockIndex[i].tx.nTime, vout |-> vBlockIndex[i].tx.vout]

\* the header of the entry at position i, and a default-constructed CBlockHeader
HeaderOf(i) == [hash |-> GetBlockHash(i), nTime |-> vBlockIndex[i].nTime]
NullHeader == [hash |-> NullHeaderHash, nTime |-> 0]

OutPoints == [hash : 0..MaxBlocks, n : 0..1]

\* nBits values offered to the kernel (compact encodings):
\*   0x0300001f  target 31, the kernel hash of genesis output 1 at time 0
\*   0x05000001  target 65536, beyond the model's word width
\*   0x0380007f  mantissa 127 with the sign bit set
NBitsSet == { 3 * (2 ^ 24) + 31, 5 * (2 ^ 24) + 1, 3 * (2 ^ 24) + 2 ^ 23 + 127 }

\* values the caller's hashProofOfStake / targetProofOfStake hold before a call
PriorProofs == { 0, Uint256Mod - 1 }

Networks == { "main", "test", "regtest", "nonet" }

(***************************************************************************)
(* chainparams.cpp                                                         *)
(***************************************************************************)
\* consensus.nStakeMinConfirmations of CMainParams, CTestNetParams, CRegTestParams
nStakeMinConfirmations(chain) ==
    CASE chain = "main" -> 240
      [] chain = "test" -> 20
      [] chain = "regtest" -> 2

\* CreateChainParams: the parameter object of a known chain, or a throw
CreateChainParams(chain) ==
    IF chain \in { "main", "test", "regtest" }
    THEN [threw |-> FALSE, params |-> chain]
    ELSE [threw |-> TRUE, params |-> NoParams]

\* the pointer reset before the new object is built
SelectParams_ResetFirst(network) ==
    LET created == CreateChainParams(network)
    IN IF created.threw
       THEN [ok |-> FALSE, params |-> NoParams]
       ELSE [ok |-> TRUE, params |-> created.params]

\* SelectParams: the value globalChainParams holds after the call, and whether
\* the call returned (TRUE) or threw (FALSE)
SelectParams(network) ==
    LET created == CreateChainParams(network)
    IN IF created.threw
       THEN [ok |-> FALSE, params |-> globalChainParams]
       ELSE [ok |-> TRUE, params |-> created.params]

\* Params(): asserts globalChainParams and returns it
Params == globalChainParams

(***************************************************************************)
(* kernel.cpp                                                              *)
(***************************************************************************)
\* the two operands streamed in the other order
ComputeStakeModifier_Swapped(pindexPrev, kernel) ==
    IF pindexPrev = NullIndex
    THEN 0
    ELSE Hash(<<vBlockIndex[pindexPrev].bnStakeModifier, kernel>>)

\* ComputeStakeModifier(pindexPrev, kernel)
ComputeStakeModifier(pindexPrev, kernel) ==
    IF pindexPrev = NullIndex
    THEN 0
    ELSE Hash(<<kernel, vBlockIndex[pindexPrev].bnStakeModifier>>)

\* IsConfirmedInNPrevBlocks(hashBlock, pindexFrom, nMaxDepth, nActualDepth):
\* looks at pindexFrom and its ancestors less than nMaxDepth steps away
IsConfirmedInNPrevBlocks(hashBlock, pindexFrom, nMaxDepth) ==
    LET hits == { i \in 1..pindexFrom :
                    pindexFrom - i < nMaxDepth /\ GetBlockHash(i) = hashBlock }
    IN IF hits = {}
       THEN [found |-> FALSE, nActualDepth |-> -1]
       ELSE [found |-> TRUE, nActualDepth |-> pindexFrom - (CHOOSE i \in hits : TRUE)]

\* txPrev->vout[n].nValue; n is not range-checked by the callers
VoutValue(txPrev, n) == txPrev.vout[n + 1]

\* the timestamp rule left out
TimestampViolation_Dropped(nTimeTx, nTimeTxPrev) == FALSE

\* kernel.cpp:60, the timestamp rule of CheckStakeKernelHash
TimestampViolation(nTimeTx, nTimeTxPrev) == nTimeTx < nTimeTxPrev

\* the stream of the protocol comment (kernel.cpp:39), which also hashes the
\* origin block's time
KernelStream_WithBlockTime(bnStakeModifier, nTimeBlockFrom, nTimeTxPrev, prevout, nTimeTx) ==
    <<bnStakeModifier, nTimeBlockFrom, nTimeTxPrev, prevout.hash, prevout.n, nTimeTx>>

\* kernel.cpp:77-79, the fields streamed into the kernel hash, in order
\* (nTimeBlockFrom is read at line 59 and only logged)
KernelStream(bnStakeModifier, nTimeBlockFrom, nTimeTxPrev, prevout, nTimeTx) ==
    <<bnStakeModifier, nTimeTxPrev, prevout.hash, prevout.n, nTimeTx>>

\* the comparison of the protocol comment (kernel.cpp:39): hash < target
ExceedsTarget_Strict(hashProofOfStake, bnTarget) == hashProofOfStake >= bnTarget

\* kernel.cpp:91, the proof is refused when the hash exceeds the target
ExceedsTarget(hashProofOfStake, bnTarget) == hashProofOfStake > bnTarget

\* the two reference parameters assigned before the timestamp rule is applied
CheckStakeKernelHash_WritesFirst(nBits, pindexPrev, blockFrom, txPrev, prevout, nTimeTx, hashIn, targetIn) ==
    LET nValueIn == VoutValue(txPrev, prevout.n)
        bnTarget == SetCompact(nBits) * nValueIn
        bnStakeModifier == vBlockIndex[pindexPrev].bnStakeModifier
        hash == Hash(KernelStream(bnStakeModifier, blockFrom.nTime, txPrev.nTime,
                                  prevout, nTimeTx))
    IN IF TimestampViolation(nTimeTx, txPrev.nTime)
       THEN [ret |-> FALSE, reason |-> "nTime violation", evaluated |-> FALSE,
             hashProofOfStake |-> hash, targetProofOfStake |-> getuint256(bnTarget),
             bnTarget |-> 0]
       ELSE [ret |-> ~ExceedsTarget(hash, bnTarget),
             reason |-> IF ExceedsTarget(hash, bnTarget) THEN "target not met" ELSE "pass",
             evaluated |-> TRUE,
             hashProofOfStake |-> hash, targetProofOfStake |-> getuint256(bnTarget),
             bnTarget |-> bnTarget]

\* CheckStakeKernelHash; hashIn / targetIn are what the two reference
\* parameters hold on entry
CheckStakeKernelHash(nBits, pindexPrev, blockFrom, txPrev, prevout, nTimeTx, hashIn, targetIn) ==
    IF TimestampViolation(nTimeTx, txPrev.nTime)
    THEN [ret |-> FALSE, reason |-> "nTime violation", evaluated |-> FALSE,
          hashProofOfStake |-> hashIn, targetProofOfStake |-> targetIn,
          bnTarget |-> 0]
    ELSE
      LET nTimeBlockFrom == blockFrom.nTime
          nValueIn == VoutValue(txPrev, prevout.n)
          bnTarget == SetCompact(nBits) * nValueIn
          bnStakeModifier == vBlockIndex[pindexPrev].bnStakeModifier
          hash == Hash(KernelStream(bnStakeModifier, nTimeBlockFrom, txPrev.nTime,
                                    prevout, nTimeTx))
      IN [ret |-> ~ExceedsTarget(hash, bnTarget),
          reason |-> IF ExceedsTarget(hash, bnTarget) THEN "target not met" ELSE "pass",
          evaluated |-> TRUE,
          hashProofOfStake |-> hash, targetProofOfStake |-> getuint256(bnTarget),
          bnTarget |-> bnTarget]

\* the transaction index: the position of the entry confirming txid, or NullIndex
ReadTxIndex(txid) == IF txid + 1 <= Len(vBlockIndex) THEN txid + 1 ELSE NullIndex

\* kernel.cpp:125 and 133: the header whose hash goes into the depth check of
\* CheckProofOfStake is the local `header`, which GetTransaction never fills
\* (it fills blockKernel)
DepthCheckHeader(posOrigin) == NullHeader

\* the verifier's answer ignored
ScriptAccepted_Ignored(scriptOk) == TRUE

\* kernel.cpp:146, whether CheckProofOfStake goes on after VerifyScript returned
\* scriptOk
ScriptAccepted(scriptOk) == scriptOk

\* the kernel part of a result when CheckStakeKernelHash was not reached
NoKernel(hashIn, targetIn) ==
    [ret |-> FALSE, reason |-> "not called", evaluated |-> FALSE,
     hashProofOfStake |-> hashIn, targetProofOfStake |-> targetIn, bnTarget |-> 0]

\* CheckProofOfStake(state, pindexPrev, tx, nBits, hashProofOfStake, targetProofOfStake).
\*   tx       [isCoinStake, prevout, nTime], prevout being vin[0].prevout
\*   got      what GetTransaction yields: NullIndex (failure) or the position of
\*            the entry whose transaction it returns
\*   scriptOk what VerifyScript returns if it is called
\* The result names the checks made, in order, in `steps`; depthHash is the block
\* hash handed to IsConfirmedInNPrevBlocks (-1 before that check), nDoS the
\* score given to state.DoS.
CheckProofOfStake(pindexPrev, tx, nBits, hashIn, targetIn, got, scriptOk) ==
    LET Reject(err, steps, depthHash, verifyScript, nDoS) ==
            [ret |-> FALSE, err |-> err, steps |-> steps,
             hashProofOfStake |-> hashIn, targetProofOfStake |-> targetIn,
             depthHash |-> depthHash, verifyScript |-> verifyScript, nDoS |-> nDoS,
             kernel |-> NoKernel(hashIn, targetIn)]
        s1 == <<"IsCoinStake">>
        s2 == Append(s1, "fTxIndex")
        s3 == Append(s2, "ReadTxIndex")
        s4 == Append(s3, "GetTransaction")
        s5 == Append(s4, "IsConfirmedInNPrevBlocks")
        s6 == Append(s5, "txid")
        s7 == Append(s6, "VerifyScript")
        s8 == Append(s7, "CheckStakeKernelHash")
    IN
    IF ~tx.isCoinStake THEN Reject("non-coinstake", s1, -1, "not called", 0)
    ELSE IF ~fTxIndex
    THEN Reject("transaction index not available", s2, -1, "not called", 0)
    ELSE IF ReadTxIndex(tx.prevout.hash) = NullIndex
    THEN Reject("tx index not found", s3, -1, "not called", 0)
    ELSE IF got = NullIndex THEN Reject("prevout-not-in-chain", s4, -1, "not called", 0)
    ELSE
      LET txPrev == TxOf(got)
          header == DepthCheckHeader(got)
          depth == IsConfirmedInNPrevBlocks(header.hash, pindexPrev,
                                            nStakeMinConfirmations(Params) - 1)
      IN
      IF depth.found
      THEN Reject("tried to stake at depth", s5, header.hash, "not called", 0)
      ELSE IF txPrev.hash # tx.prevout.hash
      THEN Reject("txid mismatch", s6, header.hash, "not called", 0)
      ELSE IF ~ScriptAccepted(scriptOk)
      THEN Reject("invalid-pos-script", s7, header.hash, "false", 100)
      ELSE
        LET k == CheckStakeKernelHash(nBits, pindexPrev, header, txPrev, tx.prevout,
                                      tx.nTime, hashIn, targetIn)
        IN [ret |-> k.ret,
            err |-> IF k.ret THEN "none" ELSE "check kernel failed",
            steps |-> s8,
            hashProofOfStake |-> k.hashProofOfStake,
            targetProofOfStake |-> k.targetProofOfStake,
            depthHash |-> header.hash,
            verifyScript |-> IF scriptOk THEN "true" ELSE "false",
            nDoS |-> IF k.ret THEN 0 ELSE 1,
            kernel |-> k]

\* CheckCoinStakeTimestamp(nTimeBlock, nTimeTx)
CheckCoinStakeTimestamp(nTimeBlock, nTimeTx) == nTimeBlock = nTimeTx

\* CheckKernel(nBits, pindexPrev, header, txPrev, prevoutStake, nTime); its two
\* proof values are locals, default-constructed (zero)
CheckKernel(nBits, pindexPrev, header, txPrev, prevoutStake, nTime) ==
    LET depth == IsConfirmedInNPrevBlocks(header.hash, pindexPrev,
                                          nStakeMinConfirmations(Params) - 1)
    IN IF depth.found
       THEN [ret |-> FALSE, depthHash |-> header.hash, kernel |-> NoKernel(0, 0)]
       ELSE LET k == CheckStakeKernelHash(nBits, pindexPrev, header, txPrev,
                                          prevoutStake, nTime, 0, 0)
            IN [ret |-> k.ret, depthHash |-> header.hash, kernel |-> k]

(***************************************************************************)
(* The state machine.                                                      *)
(***************************************************************************)
NoCall == [op |-> "none"]

\* a block index entry as AddToBlockIndex leaves it: the stake modifier comes
\* from ComputeStakeModifier(pprev, kernel)
NewEntry(pprev, kernel, nTimeBlock, body) ==
    [kernel |-> kernel,
     bnStakeModifier |-> ComputeStakeModifier(pprev, kernel),
     nTime |-> nTimeBlock,
     tx |-> body]

Init ==
    /\ globalChainParams = NoParams
    /\ fTxIndex \in BOOLEAN
    /\ \E kernel \in 0..MaxKernel, body \in TxBodies :
          vBlockIndex = <<NewEntry(NullIndex, kernel, body.nTime, body)>>
    /\ call = NoCall

\* SelectParams(network), returning or throwing
DoSelectParams ==
    /\ call.op = "none"
    /\ \E network \in Networks :
          LET r == SelectParams(network)
          IN /\ globalChainParams' = r.params
             /\ call' = [op |-> "SelectParams", network |-> network, ok |-> r.ok,
                         before |-> globalChainParams]
    /\ UNCHANGED <<fTxIndex, vBlockIndex>>

\* a block is connected on top of the chain; its time is its staking
\* transaction's time (CheckCoinStakeTimestamp)
ConnectBlock ==
    /\ call.op = "none"
    /\ globalChainParams # NoParams
    /\ Len(vBlockIndex) < MaxBlocks
    /\ \E kernel \in 0..MaxKernel, body \in TxBodies, nTimeBlock \in 0..MaxTime :
          /\ CheckCoinStakeTimestamp(nTimeBlock, body.nTime)
          /\ vBlockIndex' = Append(vBlockIndex,
                                   NewEntry(Len(vBlockIndex), kernel, nTimeBlock, body))
    /\ UNCHANGED <<globalChainParams, fTxIndex, call>>

\* block validation calls CheckProofOfStake
DoCheckProofOfStake ==
    /\ call.op = "none"
    /\ globalChainParams # NoParams
    /\ \E pindexPrev \in 1..Len(vBlockIndex), isCoinStake \in BOOLEAN,
          prevout \in OutPoints, nTime \in 0..MaxTime, nBits \in NBitsSet,
          prior \in PriorProofs, got \in 0..Len(vBlockIndex), scriptOk \in BOOLEAN :
          LET tx == [isCoinStake |-> isCoinStake, prevout |-> prevout, nTime |-> nTime]
              r == CheckProofOfStake(pindexPrev, tx, nBits, prior, prior, got, scriptOk)
          IN \* the answers of GetTransaction and VerifyScript are drawn only for
             \* the calls that can reach them
             /\ got # NullIndex =>
                   (isCoinStake /\ fTxIndex /\ ReadTxIndex(prevout.hash) # NullIndex)
             /\ ~scriptOk => got = ReadTxIndex(prevout.hash)
             /\ call' = [op |-> "CheckProofOfStake", pindexPrev |-> pindexPrev, tx |-> tx,
                         nBits |-> nBits, hashIn |-> prior, targetIn |-> prior,
                         got |-> got, out |-> r]
    /\ UNCHANGED <<globalChainParams, fTxIndex, vBlockIndex>>

\* the staking loop probes an output of the transaction confirmed at position from
DoCheckKernel ==
    /\ call.op = "none"
    /\ globalChainParams # NoParams
    /\ \E pindexPrev \in 1..Len(vBlockIndex), from \in 1..Len(vBlockIndex),
          n \in 0..1, nTime \in 0..MaxTime, nBits \in NBitsSet :
          LET prevout == [hash |-> TxOf(from).hash, n |-> n]
              r == CheckKernel(nBits, pindexPrev, HeaderOf(from), TxOf(from), prevout, nTime)
          IN call' = [op |-> "CheckKernel", pindexPrev |-> pindexPrev, from |-> from,
                      prevout |-> prevout, nTime |-> nTime, nBits |-> nBits, out |-> r]
    /\ UNCHANGED <<globalChainParams, fTxIndex, vBlockIndex>>

\* CheckStakeKernelHash called on its own: any header, an output of any indexed
\* transaction,
\* the two proof values default-constructed as in CheckKernel
DoCheckStakeKernelHash ==
    /\ call.op = "none"
    /\ globalChainParams # NoParams
    /\ \E pindexPrev \in 1..Len(vBlockIndex), blockFrom \in 0..Len(vBlockIndex),
          from \in 1..Len(vBlockIndex), n \in 0..1, nTime \in 0..MaxTime,
          nBits \in NBitsSet :
          LET header == IF blockFrom = NullIndex THEN NullHeader ELSE HeaderOf(blockFrom)
              prevout == [hash |-> TxOf(from).hash, n |-> n]
              k == CheckStakeKernelHash(nBits, pindexPrev, header, TxOf(from), prevout,
                                        nTime, 0, 0)
          IN call' = [op |-> "CheckStakeKernelHash", pindexPrev |-> pindexPrev,
                      blockFrom |-> blockFrom, from |-> from, prevout |-> prevout,
                      nTime |-> nTime, nBits |-> nBits, hashIn |-> 0,
                      targetIn |-> 0, out |-> [ret |-> k.ret, kernel |-> k]]
    /\ UNCHANGED <<globalChainParams, fTxIndex, vBlockIndex>>

\* the caller takes the result; the core keeps nothing of a call
Return ==
    /\ call.op # "none"
    /\ call' = NoCall
    /\ UNCHANGED <<globalChainParams, fTxIndex, vBlockIndex>>

Next ==
    \/ DoSelectParams
    \/ ConnectBlock
    \/ DoCheckProofOfStake
    \/ DoCheckKernel
    \/ DoCheckStakeKernelHash
    \/ Return

Spec == Init /\ [][Next]_vars

(***************************************************************************)
(* What a recorded call was given, read back from `call`.                  *)
(***************************************************************************)
PosCalled == call.op = "CheckProofOfStake"
ProbeCalled == call.op = "CheckKernel"
HashCalled == call.op = "CheckStakeKernelHash"

\* the call went through CheckStakeKernelHash (directly or from a caller)
KernelCalled ==
    /\ call.op \in { "CheckProofOfStake", "CheckKernel", "CheckStakeKernelHash" }
    /\ call.out.kernel.reason # "not called"

\* ... and passed its timestamp rule
KernelEvaluated == KernelCalled /\ call.out.kernel.evaluated

\* the arguments CheckStakeKernelHash received in a call that reached it
KernelPrevout == IF PosCalled THEN call.tx.prevout ELSE call.prevout
KernelTimeTx == IF PosCalled THEN call.tx.nTime ELSE call.nTime
KernelTxPrev == IF PosCalled THEN TxOf(call.got) ELSE TxOf(call.from)
KernelValueIn == KernelTxPrev.vout[KernelPrevout.n + 1]
KernelModifier == vBlockIndex[call.pindexPrev].bnStakeModifier
KernelBlockFromTime ==
    CASE PosCalled -> 0
      [] ProbeCalled -> vBlockIndex[call.from].nTime
      [] HashCalled -> IF call.blockFrom = NullIndex THEN 0
                       ELSE vBlockIndex[call.blockFrom].nTime

\* the five fields of the kernel protocol, in the protocol's order
KernelFields ==
    <<KernelModifier, KernelTxPrev.nTime, KernelPrevout.hash, KernelPrevout.n,
      KernelTimeTx>>

\* baseTarget(nBits) * coinValue, as an unbounded integer
WeightedTarget == SetCompact(call.nBits) * KernelValueIn

\* a CheckProofOfStake call on a coinstake whose origin is indexed and was
\* located by GetTransaction; PosOrigin is the entry that confirmed it
PosLocated ==
    /\ PosCalled
    /\ call.tx.isCoinStake
    /\ fTxIndex
    /\ ReadTxIndex(call.tx.prevout.hash) # NullIndex
    /\ call.got = ReadTxIndex(call.tx.prevout.hash)
PosOrigin == ReadTxIndex(call.tx.prevout.hash)

\* the origin's block is within nStakeMinConfirmations - 1 of pindexPrev
PosOriginTooYoung ==
    IsConfirmedInNPrevBlocks(GetBlockHash(PosOrigin), call.pindexPrev,
                             nStakeMinConfirmations(Params) - 1).found

(***************************************************************************)
(* C1: CheckProofOfStake rejects a coinstake (one that passed the          *)
(* coinstake-flag and transaction-index checks) whenever the block that    *)
(* confirmed its first input's origin transaction is within                *)
(* nStakeMinConfirmations - 1 of pindexPrev.                               *)
(***************************************************************************)
C1_TooYoungRejected ==
    (PosLocated /\ PosOriginTooYoung)
        => ~call.out.ret

\* regtest, pindexPrev = genesis, the input spends a genesis output of positive
\* value: depth 1 < 2, and the call returned true
C1_YoungStakeAccepted ==
    /\ PosLocated /\ PosOriginTooYoung
    /\ globalChainParams = "regtest" /\ call.pindexPrev = 1 /\ PosOrigin = 1
    /\ KernelValueIn > 0 /\ WeightedTarget < Uint256Mod
    /\ call.out.ret

(***************************************************************************)
(* C2: CheckProofOfStake returns true only if VerifyScript was called in   *)
(* that call and returned true.                                            *)
(***************************************************************************)
C2_AcceptedOnlyIfScriptVerified ==
    (PosCalled /\ call.out.ret) => call.out.verifyScript = "true"

C2_SignedStakeAccepted ==
    PosCalled /\ call.out.ret /\ call.out.verifyScript = "true"

(***************************************************************************)
(* C3: a call whose coinstake time is earlier than the origin              *)
(* transaction's time is rejected, whatever the modifier, difficulty, coin *)
(* value and outpoint are: by CheckProofOfStake (against the indexed       *)
(* origin and against the transaction GetTransaction returned), by         *)
(* CheckKernel and by CheckStakeKernelHash.                                *)
(***************************************************************************)
C3_TimestampViolationRejected ==
    /\ (PosCalled /\ ReadTxIndex(call.tx.prevout.hash) # NullIndex
          /\ call.tx.nTime < TxOf(ReadTxIndex(call.tx.prevout.hash)).nTime)
         => ~call.out.ret
    /\ (PosCalled /\ call.got # NullIndex /\ call.tx.nTime < TxOf(call.got).nTime)
         => ~call.out.ret
    /\ ((ProbeCalled \/ HashCalled) /\ call.nTime < TxOf(call.from).nTime)
         => ~call.out.ret

\* the validator reached the timestamp rule with a kernel hash that meets the
\* weighted target, and rejected
C3_EarlyStakeRejectedDespiteHash ==
    /\ PosLocated /\ KernelCalled
    /\ call.tx.nTime < KernelTxPrev.nTime
    /\ Hash(KernelFields) <= WeightedTarget
    /\ ~call.out.ret /\ call.out.kernel.reason = "nTime violation"

C4_HashAboveTargetRejected ==
    /\ KernelEvaluated /\ KernelValueIn > 0
    /\ call.out.kernel.hashProofOfStake = WeightedTarget + 1
    /\ ~call.out.kernel.ret

(***************************************************************************)
(* C5: the kernel hash is the hash of the five fields (parent's stake      *)
(* modifier, origin transaction time, outpoint txid, outpoint index,       *)
(* candidate time) in that order, whatever nBits, the coin value and the   *)
(* origin block's header are: a second call with the same five fields      *)
(* returns the same hash, one with other fields another hash.              *)
(***************************************************************************)
\* a second call of CheckStakeKernelHash in the same chain state
SecondKernelCall(nBits, blockFrom, prevout, nTimeTx) ==
    CheckStakeKernelHash(nBits, call.pindexPrev,
                         IF blockFrom = NullIndex THEN NullHeader ELSE HeaderOf(blockFrom),
                         KernelTxPrev, prevout, nTimeTx, 0, 0)

C6_ModifierChain ==
    \A i \in 1..Len(vBlockIndex) :
        /\ i = 1 => vBlockIndex[i].bnStakeModifier = 0
        /\ i > 1 => vBlockIndex[i].bnStakeModifier =
                      Hash(<<vBlockIndex[i].kernel, vBlockIndex[i - 1].bnStakeModifier>>)

\* genesis built with a non-zero kernel, and a child for which the order of
\* the two operands matters
C6_ChildOfGenesis ==
    /\ Len(vBlockIndex) >= 2
    /\ vBlockIndex[1].kernel # 0
    /\ Hash(<<vBlockIndex[2].kernel, vBlockIndex[1].bnStakeModifier>>)
         # Hash(<<vBlockIndex[1].bnStakeModifier, vBlockIndex[2].kernel>>)

(***************************************************************************)
(* C7: whenever CheckKernel returns true for (nBits, parent, origin block  *)
(* header, origin transaction, outpoint, t), CheckProofOfStake accepts a   *)
(* correctly signed coinstake with that input and time; both paths apply   *)
(* the same confirmation-depth rule to the same origin block hash.         *)
(***************************************************************************)
\* what CheckKernel answers for the arguments of a located CheckProofOfStake call
ProbeOfPosCall ==
    CheckKernel(call.nBits, call.pindexPrev, HeaderOf(PosOrigin), TxOf(PosOrigin),
                call.tx.prevout, call.tx.nTime)

\* the first half alone: the probe never promises what the validator refuses
C7_ProbeImpliesValidator ==
    (PosLocated /\ call.out.verifyScript # "false" /\ ProbeOfPosCall.ret)
        => call.out.ret

C7_ProbeAndValidatorAgree ==
    (PosLocated /\ call.out.verifyScript # "false") =>
        /\ ProbeOfPosCall.ret => call.out.ret
        /\ call.out.depthHash = ProbeOfPosCall.depthHash
        /\ (call.out.err = "tried to stake at depth") = PosOriginTooYoung

\* the probe refuses a young output that the validator accepts
C7_ValidatorAcceptsWhatProbeRefuses ==
    /\ PosLocated /\ PosOriginTooYoung
    /\ KernelValueIn > 0 /\ WeightedTarget < Uint256Mod
    /\ ~ProbeOfPosCall.ret /\ call.out.ret

\* the probe accepted, and so did the validator
C7_ProbeAndValidatorAccept ==
    PosLocated /\ ProbeOfPosCall.ret /\ call.out.ret

(***************************************************************************)
(* C8: on every acceptance the target reported to the caller is the number *)
(* the hash was compared against: the product baseTarget(nBits) * value    *)
(* fits the word, and hashProofOfStake <= targetProofOfStake.              *)
(***************************************************************************)
C8_ReportedTargetIsCompared ==
    (KernelEvaluated /\ call.out.kernel.ret) =>
        /\ WeightedTarget < Uint256Mod
        /\ call.out.kernel.targetProofOfStake = WeightedTarget
        /\ call.out.kernel.hashProofOfStake <= call.out.kernel.targetProofOfStake

\* a product beyond the word, accepted, with a reported target below the hash
C8_TruncatedTargetReported ==
    /\ KernelEvaluated /\ call.out.kernel.ret
    /\ WeightedTarget >= Uint256Mod
    /\ call.out.kernel.hashProofOfStake > call.out.kernel.targetProofOfStake

(***************************************************************************)
(* C9: a claim whose origin output value is zero or negative is never      *)
(* accepted, by CheckStakeKernelHash, CheckProofOfStake or CheckKernel.    *)
(***************************************************************************)
C9_NonPositiveValueRejected ==
    (KernelCalled /\ KernelValueIn <= 0) => (~call.out.ret /\ ~call.out.kernel.ret)

\* a zero-valued output accepted with kernel hash 0
C9_ZeroValueAccepted ==
    /\ KernelEvaluated /\ KernelValueIn = 0
    /\ call.out.kernel.hashProofOfStake = 0 /\ call.out.ret

\* a negative-valued output accepted under a negative compact target
C9_NegativeValueAccepted ==
    KernelEvaluated /\ KernelValueIn < 0 /\ call.out.ret

(***************************************************************************)
(* C10, as claimed: once parameters are selected, Params() returns the     *)
(* same record after every later operation, further SelectParams calls     *)
(* included.                                                               *)
(***************************************************************************)
C10_ParamsNeverChange ==
    [][globalChainParams # NoParams => globalChainParams' = globalChainParams]_vars

(***************************************************************************)
(* C10, amended: only a SelectParams call that returns changes what        *)
(* Params() returns, and it then returns the record of the network named   *)
(* in that call (nStakeMinConfirmations 240 main, 20 test, 2 regtest); a   *)
(* SelectParams call that throws and every kernel operation leave it       *)
(* unchanged.                                                              *)
(***************************************************************************)
C10_OnlySelectParamsChanges ==
    [][ /\ (globalChainParams' # globalChainParams) =>
              (call'.op = "SelectParams" /\ call'.ok /\ globalChainParams' = call'.network)
        /\ (call'.op = "SelectParams" /\ call.op = "none") =>
              IF call'.ok
              THEN /\ globalChainParams' = call'.network
                   /\ nStakeMinConfirmations(globalChainParams') =
                        (CASE call'.network = "main" -> 240
                           [] call'.network = "test" -> 20
                           [] call'.network = "regtest" -> 2)
              ELSE globalChainParams' = globalChainParams ]_vars

\* a later SelectParams replaced the record selected before
C10_ParamsReselected ==
    /\ call.op = "SelectParams" /\ call.ok
    /\ call.before # NoParams /\ call.before # globalChainParams

\* a later SelectParams threw and the record selected before is still there
C10_FailedSelectKeepsParams ==
    /\ call.op = "SelectParams" /\ ~call.ok
    /\ call.before # NoParams /\ call.before = globalChainParams

(***************************************************************************)
(* C11: CheckProofOfStake evaluates its checks strictly in the order       *)
(* coinstake flag, transaction index available, origin indexed/located,    *)
(* confirmation depth, origin txid match, script verification, timestamp   *)
(* rule, kernel target; the call's outcome is the error of the first check *)
(* that fails, the script verifier is invoked only after the structural    *)
(* checks have passed, and the kernel hash is computed only after script   *)
(* verification succeeded and the timestamp rule passed.                   *)
(***************************************************************************)
\* the order of the checks, as the names recorded in `steps`
PosCheckOrder ==
    <<"IsCoinStake", "fTxIndex", "ReadTxIndex", "GetTransaction",
      "IsConfirmedInNPrevBlocks", "txid", "VerifyScript", "CheckStakeKernelHash">>

\* the block of the transaction GetTransaction returned is within
\* nStakeMinConfirmations - 1 of pindexPrev
PosLocatedTooYoung ==
    IsConfirmedInNPrevBlocks(GetBlockHash(call.got), call.pindexPrev,
                             nStakeMinConfirmations(Params) - 1).found

\* the depth check as kernel.cpp:133 makes it, on the hash it was handed
PosDepthCheckAsCoded ==
    IsConfirmedInNPrevBlocks(call.out.depthHash, call.pindexPrev,
                             nStakeMinConfirmations(Params) - 1).found

\* the error of the first structural check the call's inputs fail, "none" when
\* they pass all of them; tooYoung is what the confirmation depth check finds
PosFirstStructuralFailure(tooYoung) ==
    IF ~call.tx.isCoinStake THEN "non-coinstake"
    ELSE IF ~fTxIndex THEN "transaction index not available"
    ELSE IF ReadTxIndex(call.tx.prevout.hash) = NullIndex THEN "tx index not found"
    ELSE IF call.got = NullIndex THEN "prevout-not-in-chain"
    ELSE IF tooYoung THEN "tried to stake at depth"
    ELSE IF TxOf(call.got).hash # call.tx.prevout.hash THEN "txid mismatch"
    ELSE "none"

\* the outcome of a recorded call is that of the first failing check, given
\* which structural check fails first
PosOutcomeOfFirstFailure(structural) ==
    /\ \E n \in 1..Len(PosCheckOrder) : call.out.steps = SubSeq(PosCheckOrder, 1, n)
    /\ structural # "none" =>
          /\ call.out.err = structural /\ ~call.out.ret
          /\ call.out.verifyScript = "not called"
          /\ call.out.kernel.reason = "not called"
    /\ structural = "none" =>
          /\ call.out.verifyScript \in { "true", "false" }
          /\ call.out.verifyScript = "false" =>
                /\ call.out.err = "invalid-pos-script" /\ ~call.out.ret
                /\ call.out.kernel.reason = "not called"
          /\ call.out.verifyScript = "true" =>
                IF call.tx.nTime < TxOf(call.got).nTime
                THEN /\ call.out.kernel.reason = "nTime violation"
                     /\ ~call.out.kernel.evaluated
                     /\ call.out.err = "check kernel failed" /\ ~call.out.ret
                ELSE /\ call.out.kernel.evaluated
                     /\ IF Hash(KernelFields) > WeightedTarget
                        THEN /\ call.out.kernel.reason = "target not met"
                             /\ call.out.err = "check kernel failed" /\ ~call.out.ret
                        ELSE /\ call.out.kernel.reason = "pass"
                             /\ call.out.err = "none" /\ call.out.ret
    /\ call.out.verifyScript # "not called" => structural = "none"
    /\ call.out.kernel.evaluated =>
          /\ structural = "none" /\ call.out.verifyScript = "true"
          /\ call.tx.nTime >= TxOf(call.got).nTime

C11_FirstFailingCheckDecides ==
    PosCalled => PosOutcomeOfFirstFailure(PosFirstStructuralFailure(PosLocatedTooYoung))

\* the same order holds of the checks as the code makes them, the depth check
\* being made on the hash of the unfilled local header
C11_OrderOfChecksAsCoded ==
    PosCalled => PosOutcomeOfFirstFailure(PosFirstStructuralFailure(PosDepthCheckAsCoded))

\* regtest, pindexPrev = genesis, the input spends a genesis output: depth 1 < 2,
\* yet the verifier was invoked and its refusal is the call's outcome
C11_VerifierRunsOnYoungStake ==
    /\ PosLocated /\ PosLocatedTooYoung
    /\ globalChainParams = "regtest" /\ call.pindexPrev = 1 /\ call.got = 1
    /\ call.out.verifyScript = "false"
    /\ call.out.err = "invalid-pos-script"

\* a call refused at each of the checks the code can fail, and one accepted
C11_RefusedAtTimestampRule ==
    /\ PosCalled /\ call.out.kernel.reason = "nTime violation"
    /\ call.out.steps = PosCheckOrder
C11_RefusedAtTxid ==
    PosCalled /\ call.out.err = "txid mismatch"

(***************************************************************************)
(* C12: CheckProofOfStake leaves the caller's hashProofOfStake and         *)
(* targetProofOfStake unchanged whenever it rejects for any reason other   *)
(* than the kernel target not being met (not a coinstake, index            *)
(* unavailable, origin not found, insufficient confirmations, txid         *)
(* mismatch, invalid script, timestamp violation); the two outputs are     *)
(* written only once kernel evaluation passes the timestamp rule, and are  *)
(* then written on both acceptance and kernel-target rejection.            *)
(***************************************************************************)
\* the two reference parameters hold after the call what they held before it
PosOutputsUntouched ==
    /\ call.out.hashProofOfStake = call.hashIn
    /\ call.out.targetProofOfStake = call.targetIn

\* ... or the kernel hash and the 256-bit value of the weighted target
PosOutputsWritten ==
    /\ call.out.hashProofOfStake = Hash(KernelFields)
    /\ call.out.targetProofOfStake = getuint256(WeightedTarget)

C12_OutputsWrittenOnlyByEvaluation ==
    PosCalled =>
        /\ (~call.out.ret /\ call.out.kernel.reason # "target not met") =>
              /\ call.out.err \in { "non-coinstake", "transaction index not available",
                                    "tx index not found", "prevout-not-in-chain",
                                    "tried to stake at depth", "txid mismatch",
                                    "invalid-pos-script", "check kernel failed" }
              /\ call.out.err = "check kernel failed" =>
                    /\ call.out.kernel.reason = "nTime violation"
                    /\ call.tx.nTime < TxOf(call.got).nTime
              /\ PosOutputsUntouched
        /\ (call.out.ret \/ call.out.kernel.reason = "target not met") =>
              /\ call.tx.nTime >= TxOf(call.got).nTime
              /\ PosOutputsWritten

\* a call refused by the timestamp rule whose two outputs still hold the
\* caller's values, both different from what an evaluation would have written
C12_TimestampRejectKeepsOutputs ==
    /\ PosCalled /\ call.out.kernel.reason = "nTime violation"
    /\ Hash(KernelFields) # call.hashIn
    /\ getuint256(WeightedTarget) # call.targetIn
    /\ PosOutputsUntouched

\* a call refused because the hash exceeds the target, both outputs overwritten
C12_TargetRejectWritesOutputs ==
    /\ PosCalled /\ call.out.kernel.reason = "target not met"
    /\ call.out.hashProofOfStake # call.hashIn
    /\ call.out.targetProofOfStake # call.targetIn
    /\ PosOutputsWritten

\* an accepted call, both outputs overwritten
C12_AcceptWritesOutputs ==
    /\ PosCalled /\ call.out.ret
    /\ call.out.hashProofOfStake # call.hashIn
    /\ call.out.targetProofOfStake # call.targetIn
    /\ PosOutputsWritten

\* a call refused by the script verifier, the caller's non-zero values kept
C12_ScriptRejectKeepsOutputs ==
    /\ PosCalled /\ call.out.err = "invalid-pos-script"
    /\ call.hashIn # 0 /\ call.targetIn # 0
    /\ PosOutputsUntouched

====
